---- MODULE Spec2Model ----
(***************************************************************************)
(* The map screen of the volunteer-events client (src/pages/EventsMap.tsx) *)
(* together with the network-first event fetch it consumes                 *)
(* (src/services/api.ts, getEvents) and the creation form's save handler *)
(* (src/pages/CreateEvent.tsx).                                            *)
(*                                                                         *)
(* The screen is a React function component: every handler runs to         *)
(* completion on the single JS thread, the component re-renders and the    *)
(* effects whose dependencies changed run before the next input is         *)
(* delivered.  One action of the model is therefore one handler (or one    *)
(* resumption of the async loadEvents after an await) including the        *)
(* effects of the render it causes.                                        *)
(*                                                                         *)
(* services/caching (getFromNetworkFirst, getFromCache) is imported by the *)
(* sources but is not among them; it is modelled from section 4.1 of the   *)
(* specification.  So are the navigator, which unmounts the map screen on *)
(* navigate('Login'), and a createEvent that resolves: api.ts exports no   *)
(* createEvent.                                                            *)
(***************************************************************************)
EXTENDS Integers, Sequences, FiniteSets, TLC

VARIABLES
    events,            \* useState<Event[]>([])                 EventsMap.tsx:41
    isLoading,         \* useState<boolean>(true)               EventsMap.tsx:42
    isCreatingEvent,   \* useState<boolean>(false)              EventsMap.tsx:43
    newEventLocation,  \* useState<NewEventLocation|null>(null) EventsMap.tsx:44
    pc,                \* where the async loadEvents of this mount is suspended
    net,               \* how api.get('/events') of this load settled
    fetchResult,       \* how the promise returned by api.getEvents() settled
    cache,             \* the persistent key-value cache, one slot per key
    route,             \* the navigator's current route and its params
    launches,          \* number of times the app has been started
    cacheOps,          \* observation: cache operations of the current load
    prevFetch,         \* observation: how getEvents of the previous start settled
    previousPin,       \* observation: location the last ended attempt had
                       \* chosen, until the next attempt takes a tap
    logoutPc,          \* where the async handleLogout is suspended
    isSaving,          \* useState<boolean>(false)              CreateEvent.tsx:21
    savePc,            \* where the async handleSaveEvent is suspended
    firstTap,          \* observation: first map tap since creation was started
    last               \* observation: the last step taken and the calls it made

vars == <<events, isLoading, isCreatingEvent, newEventLocation, pc, net,
          fetchResult, cache, route, launches, savePc, isSaving, logoutPc,
          previousPin, prevFetch, cacheOps, firstTap, last>>

---------------------------------------------------------------------------
(* Bounds of the model *)

\* the app is started at most this many times (the cache survives a restart)
MaxLaunches == 2

\* longest list of events the filter of loadEvents is tried on
MaxEvents == 3

---------------------------------------------------------------------------
(* Values *)

\* JavaScript null / an absent cache slot
NULL == [null |-> TRUE]

Coordinate(lat, lon) == [latitude |-> lat, longitude |-> lon]

\* the points the map surface can report for a tap
Coords == {Coordinate(5, 5), Coordinate(10, 20), Coordinate(30, 40)}

\* interface Event, reduced to the fields the screen reads;
\* dateTime is a string
Event(id, t, pos) == [id |-> id, dateTime |-> t, position |-> pos]

E1 == Event("e1", "2030-01-01", Coordinate(1, 1))
E2 == Event("e2", "2030-01-02", Coordinate(2, 2))
E3 == Event("e3", "2030-01-03", Coordinate(3, 3))
\* an event whose dateTime no Date can be made of
E4 == Event("e4", "soon", Coordinate(4, 4))

\* the bodies the server can answer GET /events with
ServerData == {<<>>, <<E1, E2>>, <<E2, E3>>, <<E1, E2, E3, E4>>}

\* the instants new Date() can return during a load, in days of January 2030
Times == {1, 2}

\* new Date(string): the instant the string denotes (in days of January
\* 2030), or an Invalid Date, whose time value is NaN
newDate(dateTime) ==
    CASE dateTime = "2030-01-01" -> [valid |-> TRUE, time |-> 1]
      [] dateTime = "2030-01-02" -> [valid |-> TRUE, time |-> 2]
      [] dateTime = "2030-01-03" -> [valid |-> TRUE, time |-> 3]
      [] dateTime = "2030-01-01T00:00:00.000Z" -> [valid |-> TRUE, time |-> 1]
      [] dateTime = "2030-01-02T00:00:00.000Z" -> [valid |-> TRUE, time |-> 2]
      [] dateTime = "2030-01-03T00:00:00.000Z" -> [valid |-> TRUE, time |-> 3]
      [] OTHER -> [valid |-> FALSE, time |-> 0]

\* the resource keys of the cache
Keys == {"events", "other"}

\* what a slot can hold when the app is first started
SlotValues == {NULL} \cup {[value |-> d] : d \in {<<E1, E2>>, <<E2, E3>>}}

---------------------------------------------------------------------------
(* Pure parts of the screen *)

\* variant: an event dated exactly now still counts as upcoming
after_inclusive(eventDate, now) == eventDate.valid /\ eventDate.time >= now

\* eventDate > now on two Dates: compares the time values, and is false
\* when one of them is NaN
after(eventDate, now) == eventDate.valid /\ eventDate.time > now

RECURSIVE filter(_, _)
\* Array.prototype.filter with the predicate of loadEvents' try block:
\* a new array of the events whose dateTime is after now, in order
filter(data, now) ==
    IF data = <<>> THEN <<>>
    ELSE IF after(newDate(Head(data).dateTime), now)
         THEN <<Head(data)>> \o filter(Tail(data), now)
         ELSE filter(Tail(data), now)

\* try block: const now = new Date(); upcomingEvents = data.filter(...)
upcomingEvents(data, now) == filter(data, now)

RECURSIVE cachedFilter(_, _)
\* Array.prototype.filter with the predicate of loadEvents' catch block
cachedFilter(cachedEvents, now) ==
    IF cachedEvents = <<>> THEN <<>>
    ELSE IF LET eventDate == newDate(Head(cachedEvents).dateTime)
            IN  eventDate.valid /\ eventDate.time > now
         THEN <<Head(cachedEvents)>> \o cachedFilter(Tail(cachedEvents), now)
         ELSE cachedFilter(Tail(cachedEvents), now)

RECURSIVE cachedFilter_clock(_, _)
\* variant: new Date() is read inside the callback, once per item, while the
\* clock moves on by one day per item
cachedFilter_clock(cachedEvents, now) ==
    IF cachedEvents = <<>> THEN <<>>
    ELSE IF LET eventDate == newDate(Head(cachedEvents).dateTime)
            IN  eventDate.valid /\ eventDate.time > now
         THEN <<Head(cachedEvents)>> \o cachedFilter_clock(Tail(cachedEvents), now + 1)
         ELSE cachedFilter_clock(Tail(cachedEvents), now + 1)

cachedUpcomingEvents_nowPerItem(cachedEvents, now) == cachedFilter_clock(cachedEvents, now)

\* catch block: const now = new Date(); upcomingEvents = cachedEvents.filter(...)
cachedUpcomingEvents(cachedEvents, now) == cachedFilter(cachedEvents, now)

\* the coordinates the fit effect passes to fitToCoordinates
coordinates(evs) == [i \in 1..Len(evs) |-> evs[i].position]

\* variant: the effect does not look at isCreatingEvent
fitEffect_ignoresCreating(depsChanged, evs, creating) ==
    IF depsChanged /\ Len(evs) > 0
    THEN <<[fn |-> "fitToCoordinates", arg |-> [coordinates |-> coordinates(evs)]]>>
    ELSE <<>>

\* useEffect(..., [events, isCreatingEvent]): the calls the effect makes in
\* the render that follows a change of one of its dependencies
fitEffect(depsChanged, evs, creating) ==
    IF depsChanged /\ Len(evs) > 0 /\ ~creating
    THEN <<[fn |-> "fitToCoordinates", arg |-> [coordinates |-> coordinates(evs)]]>>
    ELSE <<>>

\* the phase of the creation flow that the two flags encode
MachineState ==
    IF ~isCreatingEvent /\ newEventLocation = NULL THEN "Idle"
    ELSE IF isCreatingEvent /\ newEventLocation = NULL THEN "SelectingLocation"
    ELSE IF isCreatingEvent /\ newEventLocation # NULL THEN "LocationChosen"
    ELSE "Unintended"

OnMap == route.name = "EventsMap"

\* EventsMap is mounted: on top, or underneath CreateEvent
Mounted == route.name # "Login"

\* what is observed of a step: the input delivered, the phase and pending
\* location it found, and the calls it made on its collaborators
Step(input, calls) ==
    [input |-> input, calls |-> calls, from |-> MachineState,
     pending |-> newEventLocation]

Pending == [kind |-> "pending"]
Resolved(v) == [kind |-> "resolved", value |-> v]
Rejected(e) == [kind |-> "rejected", error |-> e]

Call(fn, arg) == [fn |-> fn, arg |-> arg]

\* handleSaveEvent is not running
SaveIdle == [at |-> "idle"]

\* what is observed of a cache operation: which slot, by which function, and
\* how the network operation of the load stood when it was made
CacheOp(op, key, by) == [op |-> op, key |-> key, by |-> by, net |-> net.kind]

---------------------------------------------------------------------------
(* Initial state: the app has been started, EventsMap has rendered once,  *)
(* its mount effect has called loadEvents(), which has called              *)
(* api.getEvents() and is suspended on it; the fit effect of the first     *)
(* render found no events.  The cache holds whatever earlier runs left.    *)

Init ==
    /\ events = <<>>
    /\ isLoading = TRUE
    /\ isCreatingEvent = FALSE
    /\ newEventLocation = NULL
    /\ pc = "awaitNetwork"
    /\ net = Pending
    /\ fetchResult = Pending
    /\ cache \in [Keys -> SlotValues]
    /\ route = [name |-> "EventsMap", params |-> NULL]
    /\ launches = 1
    /\ savePc = SaveIdle
    /\ isSaving = FALSE
    /\ logoutPc = "idle"
    /\ previousPin = NULL
    /\ prevFetch = [net |-> "none", result |-> Pending]
    /\ cacheOps = <<>>
    /\ firstTap = NULL
    /\ last = [input |-> [kind |-> "launch"], calls |-> <<>>, from |-> "Idle",
               pending |-> NULL]

---------------------------------------------------------------------------
(* The creation flow: handlers of EventsMap *)

\* variant: the "+" button is rendered in every phase
handleNavigateToCreateEvent_alwaysRendered ==
    /\ OnMap
    /\ isCreatingEvent' = TRUE
    /\ newEventLocation' = NULL
    /\ firstTap' = NULL
    /\ last' = Step([kind |-> "start"],
                    fitEffect(isCreatingEvent' # isCreatingEvent, events, isCreatingEvent'))
    /\ UNCHANGED <<events, isLoading, pc, net, fetchResult, cache, route, launches,
                   savePc, isSaving, logoutPc, previousPin, prevFetch,
                   cacheOps>>

\* variant: starting again resumes with the location of the last attempt
handleNavigateToCreateEvent_restoresPin ==
    /\ OnMap /\ ~isCreatingEvent
    /\ isCreatingEvent' = TRUE
    /\ newEventLocation' = previousPin
    /\ firstTap' = NULL
    /\ last' = Step([kind |-> "start"],
                    fitEffect(isCreatingEvent' # isCreatingEvent, events, isCreatingEvent'))
    /\ UNCHANGED <<events, isLoading, pc, net, fetchResult, cache, route, launches,
                   savePc, isSaving, logoutPc, previousPin, prevFetch,
                   cacheOps>>

\* the "+" button of the footer, rendered while !isCreatingEvent
handleNavigateToCreateEvent ==
    /\ OnMap /\ ~isCreatingEvent
    /\ isCreatingEvent' = TRUE
    /\ newEventLocation' = NULL
    /\ firstTap' = NULL
    /\ last' = Step([kind |-> "start"],
                    fitEffect(isCreatingEvent' # isCreatingEvent, events, isCreatingEvent'))
    /\ UNCHANGED <<events, isLoading, pc, net, fetchResult, cache, route, launches,
                   savePc, isSaving, logoutPc, previousPin, prevFetch,
                   cacheOps>>

\* variant: cancel leaves the flow but forgets setNewEventLocation(null)
handleCancelLocationSelection_keepsPin ==
    /\ OnMap /\ isCreatingEvent
    /\ isCreatingEvent' = FALSE
    /\ newEventLocation' = newEventLocation
    /\ firstTap' = NULL
    /\ previousPin' = newEventLocation
    /\ last' = Step([kind |-> "cancel"],
                    fitEffect(isCreatingEvent' # isCreatingEvent, events, isCreatingEvent'))
    /\ UNCHANGED <<events, isLoading, pc, net, fetchResult, cache, route, launches,
                   savePc, isSaving, logoutPc, prevFetch, cacheOps>>

\* variant: the fit effect depends on events only, so leaving the flow does
\* not run it
handleCancelLocationSelection_noRefit ==
    /\ OnMap /\ isCreatingEvent
    /\ isCreatingEvent' = FALSE
    /\ newEventLocation' = NULL
    /\ firstTap' = NULL
    /\ previousPin' = newEventLocation
    /\ last' = Step([kind |-> "cancel"], fitEffect(FALSE, events, isCreatingEvent'))
    /\ UNCHANGED <<events, isLoading, pc, net, fetchResult, cache, route, launches,
                   savePc, isSaving, logoutPc, prevFetch, cacheOps>>

\* the back / close buttons of the header, rendered while isCreatingEvent
handleCancelLocationSelection ==
    /\ OnMap /\ isCreatingEvent
    /\ isCreatingEvent' = FALSE
    /\ newEventLocation' = NULL
    /\ firstTap' = NULL
    /\ previousPin' = newEventLocation
    /\ last' = Step([kind |-> "cancel"],
                    fitEffect(isCreatingEvent' # isCreatingEvent, events, isCreatingEvent'))
    /\ UNCHANGED <<events, isLoading, pc, net, fetchResult, cache, route, launches,
                   savePc, isSaving, logoutPc, prevFetch, cacheOps>>

\* variant: the tap handler does not check isCreatingEvent
mapPressAccepted_outsideCreation == newEventLocation = NULL

\* variant: the tap handler does not check that no location is pending
mapPressAccepted_overwrites == isCreatingEvent

\* variant: taps are taken only once the events have been loaded
mapPressAccepted_onlyWhenLoaded ==
    isCreatingEvent /\ newEventLocation = NULL /\ ~isLoading

\* the condition under which a tap sets the pending location
mapPressAccepted == isCreatingEvent /\ newEventLocation = NULL

\* onPress of the MapView, always mounted
handleMapPress(coordinate) ==
    /\ OnMap
    /\ newEventLocation' = IF mapPressAccepted
                           THEN Coordinate(coordinate.latitude, coordinate.longitude)
                           ELSE newEventLocation
    /\ firstTap' = IF isCreatingEvent /\ firstTap = NULL THEN coordinate ELSE firstTap
    /\ previousPin' = IF isCreatingEvent THEN NULL ELSE previousPin
    /\ last' = Step([kind |-> "tap", coordinate |-> coordinate], <<>>)
    /\ UNCHANGED <<events, isLoading, isCreatingEvent, pc, net, fetchResult, cache,
                   route, launches, savePc, isSaving, logoutPc, prevFetch, cacheOps>>

\* variant: latitude and longitude are passed the wrong way round
navigateParams_swapped(location) ==
    [latitude |-> location.longitude, longitude |-> location.latitude]

\* the params handleLocationConfirmed passes to navigation.navigate
navigateParams(location) ==
    [latitude |-> location.latitude, longitude |-> location.longitude]

\* the "Next" button, rendered while isCreatingEvent && newEventLocation
handleLocationConfirmed ==
    /\ OnMap /\ isCreatingEvent /\ newEventLocation # NULL
    /\ IF newEventLocation # NULL
       THEN /\ route' = [name |-> "CreateEvent",
                         params |-> navigateParams(newEventLocation)]
            /\ isCreatingEvent' = FALSE
            /\ newEventLocation' = NULL
            /\ last' = Step([kind |-> "confirm"],
                            <<Call("navigate", route')>>
                            \o fitEffect(isCreatingEvent' # isCreatingEvent, events,
                                         isCreatingEvent'))
       ELSE /\ UNCHANGED <<route, isCreatingEvent, newEventLocation>>
            /\ last' = Step([kind |-> "confirm"], <<>>)
    /\ firstTap' = NULL
    /\ previousPin' = IF newEventLocation # NULL THEN newEventLocation
                      ELSE previousPin
    /\ UNCHANGED <<events, isLoading, pc, net, fetchResult, cache, launches, savePc,
                   isSaving, logoutPc, prevFetch, cacheOps>>

\* CreateEvent: const { latitude, longitude } = route.params
CreateEventLocation ==
    [latitude |-> route.params.latitude, longitude |-> route.params.longitude]

\* CreateEvent: handleCancel, "Yes": navigation.goBack().  The header's
\* buttons stay enabled while saving.  EventsMap stayed mounted underneath
\* and keeps its state; the form is unmounted.
goBack ==
    /\ route.name = "CreateEvent"
    /\ savePc.at # "successAlert"
    /\ route' = [name |-> "EventsMap", params |-> NULL]
    /\ isSaving' = FALSE
    /\ last' = Step([kind |-> "back"], <<>>)
    /\ UNCHANGED <<events, isLoading, isCreatingEvent, newEventLocation, pc, net,
                   fetchResult, cache, launches, savePc, logoutPc,
                   previousPin, prevFetch, cacheOps, firstTap>>

---------------------------------------------------------------------------
(* The creation form: handleSaveEvent of CreateEvent *)

\* what the text fields can hold when Save is pressed
NameTexts == {" ", "Beach cleanup"}
VolunteerTexts == {"", "3", "-5", "many"}
DateTexts == {"", "2030-01-02", "soon"}

\* the form's fields; the description is held equal to the name
Forms ==
    [eventName : NameTexts, volunteersNeeded : VolunteerTexts,
     eventDateTime : DateTexts]

\* String.prototype.trim
trim(text) == IF text = " " THEN "" ELSE text

\* Number(string): the number the text denotes (the empty text denotes 0),
\* or NaN
Number(text) ==
    CASE text = "" -> [nan |-> FALSE, value |-> 0]
      [] text = "3" -> [nan |-> FALSE, value |-> 3]
      [] text = "-5" -> [nan |-> FALSE, value |-> -5]
      [] OTHER -> [nan |-> TRUE, value |-> 0]

\* Date.prototype.toISOString: the instant in ISO 8601, or a RangeError for
\* an Invalid Date
toISOString(date) ==
    IF ~date.valid THEN [threw |-> "RangeError"]
    ELSE CASE date.time = 1 -> [threw |-> "", value |-> "2030-01-01T00:00:00.000Z"]
           [] date.time = 2 -> [threw |-> "", value |-> "2030-01-02T00:00:00.000Z"]
           [] date.time = 3 -> [threw |-> "", value |-> "2030-01-03T00:00:00.000Z"]

\* the four checks at the top of handleSaveEvent: TRUE when none returns
formChecks(form) ==
    /\ trim(form.eventName) # ""
    /\ trim(form.volunteersNeeded) # ""
    /\ ~Number(form.volunteersNeeded).nan
    /\ trim(form.eventDateTime) # ""

\* const newEvent = { ... }, for a form whose date toISOString accepts
newEvent(form) ==
    [id |-> "uuid",
     name |-> trim(form.eventName),
     description |-> trim(form.eventName),
     dateTime |-> toISOString(newDate(form.eventDateTime)).value,
     position |-> CreateEventLocation,
     volunteersNeeded |-> Number(form.volunteersNeeded).value,
     volunteersIds |-> <<>>]

Alert(title) == Call("alert", [title |-> title])

\* variant: the new event is put into the map's list as soon as it is sent
handleSaveEvent_optimisticInsert(form) ==
    /\ route.name = "CreateEvent" /\ ~isSaving
    /\ savePc = SaveIdle       \* one write in flight at a time
    /\ logoutPc = "idle"       \* a save overlapping a logout is not followed
    /\ IF ~formChecks(form)
       THEN /\ last' = Step([kind |-> "save"], <<Alert("Error")>>)
            /\ UNCHANGED <<isSaving, savePc, events>>
       ELSE IF toISOString(newDate(form.eventDateTime)).threw # ""
       THEN \* setIsSaving(true); RangeError; catch; finally setIsSaving(false)
            /\ last' = Step([kind |-> "save"], <<Alert("Error")>>)
            /\ UNCHANGED <<isSaving, savePc, events>>
       ELSE /\ isSaving' = TRUE
            /\ events' = Append(events, newEvent(form))
            /\ savePc' = [at |-> "awaitCreate"]
            /\ last' = Step([kind |-> "save"], <<Call("createEvent", newEvent(form))>>)
    /\ UNCHANGED <<isLoading, isCreatingEvent, newEventLocation, pc, net,
                   fetchResult, cache, route, launches, logoutPc,
                   previousPin, prevFetch, cacheOps, firstTap>>

\* the "Save Event" button, enabled while !isSaving, up to the await
handleSaveEvent(form) ==
    /\ route.name = "CreateEvent" /\ ~isSaving
    /\ savePc = SaveIdle       \* one write in flight at a time
    /\ logoutPc = "idle"       \* a save overlapping a logout is not followed
    /\ IF ~formChecks(form)
       THEN /\ last' = Step([kind |-> "save"], <<Alert("Error")>>)
            /\ UNCHANGED <<isSaving, savePc>>
       ELSE IF toISOString(newDate(form.eventDateTime)).threw # ""
       THEN \* setIsSaving(true); RangeError; catch; finally setIsSaving(false)
            /\ last' = Step([kind |-> "save"], <<Alert("Error")>>)
            /\ UNCHANGED <<isSaving, savePc>>
       ELSE /\ isSaving' = TRUE
            /\ savePc' = [at |-> "awaitCreate"]
            /\ last' = Step([kind |-> "save"], <<Call("createEvent", newEvent(form))>>)
    /\ UNCHANGED <<events, isLoading, isCreatingEvent, newEventLocation, pc, net,
                   fetchResult, cache, route, launches, logoutPc,
                   previousPin, prevFetch, cacheOps, firstTap>>

\* await api.createEvent(newEvent) resolved: the success alert; finally
createEventResolves ==
    /\ savePc.at = "awaitCreate"
    /\ savePc' = [at |-> "successAlert"]
    /\ isSaving' = FALSE
    /\ last' = Step([kind |-> "created"], <<Alert("Success")>>)
    /\ UNCHANGED <<events, isLoading, isCreatingEvent, newEventLocation, pc, net,
                   fetchResult, cache, route, launches, logoutPc,
                   previousPin, prevFetch, cacheOps, firstTap>>

\* api.createEvent(newEvent) threw or rejected: catch, the error alert;
\* finally
createEventRejects ==
    /\ savePc.at = "awaitCreate"
    /\ savePc' = SaveIdle
    /\ isSaving' = FALSE
    /\ last' = Step([kind |-> "createFailed"], <<Alert("Error")>>)
    /\ UNCHANGED <<events, isLoading, isCreatingEvent, newEventLocation, pc, net,
                   fetchResult, cache, route, launches, logoutPc,
                   previousPin, prevFetch, cacheOps, firstTap>>

\* "OK" of the success alert: navigation.navigate('EventsMap')
successAlertOk ==
    /\ savePc.at = "successAlert"
    /\ savePc' = SaveIdle
    /\ route' = [name |-> "EventsMap", params |-> NULL]
    /\ last' = Step([kind |-> "ok"], <<Call("navigate", route')>>)
    /\ UNCHANGED <<events, isLoading, isCreatingEvent, newEventLocation, pc, net,
                   fetchResult, cache, launches, isSaving, logoutPc,
                   previousPin, prevFetch, cacheOps, firstTap>>

---------------------------------------------------------------------------
(* Logout from the map screen *)

\* variant: navigate('Login') puts Login on top and EventsMap stays mounted
\* underneath with its state
stateAfterLogout_stillMounted ==
    [events |-> events, isLoading |-> isLoading,
     isCreatingEvent |-> isCreatingEvent, newEventLocation |-> newEventLocation]

\* the navigator on navigate('Login') from EventsMap: the screen is left and
\* unmounted, its state is gone (shown as the values a new mount starts with)
stateAfterLogout ==
    [events |-> <<>>, isLoading |-> TRUE,
     isCreatingEvent |-> FALSE, newEventLocation |-> NULL]

\* the logout button, rendered in every phase:
\* await AsyncStorage.multiRemove(['userInfo', 'accessToken'])
handleLogout ==
    /\ OnMap /\ logoutPc = "idle"
    /\ savePc = SaveIdle      \* a logout overlapping a save is not followed
    /\ logoutPc' = "multiRemove"
    /\ last' = Step([kind |-> "logout"],
                    <<Call("multiRemove", [keys |-> <<"userInfo", "accessToken">>])>>)
    /\ UNCHANGED <<events, isLoading, isCreatingEvent, newEventLocation, pc, net,
                   fetchResult, cache, route, launches, savePc, isSaving,
                   previousPin, prevFetch, cacheOps, firstTap>>

\* multiRemove resolved: authenticationContext.setValue(undefined);
\* navigation.navigate('Login')
handleLogoutResolved ==
    /\ logoutPc = "multiRemove"
    /\ logoutPc' = "idle"
    /\ route' = [name |-> "Login", params |-> NULL]
    /\ events' = stateAfterLogout.events
    /\ isLoading' = stateAfterLogout.isLoading
    /\ isCreatingEvent' = stateAfterLogout.isCreatingEvent
    /\ newEventLocation' = stateAfterLogout.newEventLocation
    /\ isSaving' = FALSE
    /\ firstTap' = NULL
    /\ last' = Step([kind |-> "loggedOut"], <<Call("navigate", route')>>)
    /\ UNCHANGED <<pc, net, fetchResult, cache, launches, savePc, previousPin,
                   prevFetch, cacheOps>>

\* multiRemove rejected: catch (error) { console.log(...) }
handleLogoutRejected ==
    /\ logoutPc = "multiRemove"
    /\ logoutPc' = "idle"
    /\ last' = Step([kind |-> "logoutFailed"], <<>>)
    /\ UNCHANGED <<events, isLoading, isCreatingEvent, newEventLocation, pc, net,
                   fetchResult, cache, route, launches, savePc, isSaving,
                   previousPin, prevFetch, cacheOps, firstTap>>

---------------------------------------------------------------------------
(* api.getEvents(): network first, cache as fallback *)

\* variant: getEvents names another slot than the one the screen reads
getEventsKey_other == "other"

\* the cache slot getEvents hands to getFromNetworkFirst
getEventsKey == "events"

\* the cache slot loadEvents reads itself when getEvents has rejected
loadEventsCacheKey == "events"

\* api.get('/events').then(res => res.data) resolves with the body
NetworkResolves(data) ==
    /\ pc = "awaitNetwork"
    /\ net' = Resolved(data)
    /\ pc' = "cacheWrite"
    /\ last' = Step([kind |-> "networkResolved"], <<>>)
    /\ UNCHANGED <<events, isLoading, isCreatingEvent, newEventLocation,
                   fetchResult, cache, route, launches, savePc, isSaving,
                   logoutPc, previousPin, prevFetch, cacheOps, firstTap>>

\* api.get('/events') rejects (no connection, timeout, HTTP error)
NetworkRejects ==
    /\ pc = "awaitNetwork"
    /\ net' = Rejected("NetworkFailure")
    /\ pc' = "cacheRead"
    /\ last' = Step([kind |-> "networkRejected"], <<>>)
    /\ UNCHANGED <<events, isLoading, isCreatingEvent, newEventLocation,
                   fetchResult, cache, route, launches, savePc, isSaving,
                   logoutPc, previousPin, prevFetch, cacheOps, firstTap>>

\* getFromNetworkFirst, network resolved: overwrite the slot with the value,
\* then resolve with it
getFromNetworkFirstStore(key) ==
    /\ pc = "cacheWrite"
    /\ cache' = [cache EXCEPT ![key] = [value |-> net.value]]
    /\ fetchResult' = Resolved(net.value)
    /\ pc' = "fetchSettled"
    /\ cacheOps' = Append(cacheOps, CacheOp("write", key, "getFromNetworkFirst"))
    /\ last' = Step([kind |-> "cacheWrite", key |-> key, previous |-> cache[key]], <<>>)
    /\ UNCHANGED <<events, isLoading, isCreatingEvent, newEventLocation, net, route,
                   launches, savePc, isSaving, logoutPc, previousPin,
                   prevFetch, firstTap>>

\* getFromNetworkFirst, network rejected: read the slot; resolve with what it
\* holds, reject with NoDataAvailable when it holds nothing
getFromNetworkFirstFallback(key) ==
    /\ pc = "cacheRead"
    /\ fetchResult' = IF cache[key] # NULL THEN Resolved(cache[key].value)
                      ELSE Rejected("NoDataAvailable")
    /\ pc' = "fetchSettled"
    /\ cacheOps' = Append(cacheOps, CacheOp("read", key, "getFromNetworkFirst"))
    /\ last' = Step([kind |-> "cacheRead", key |-> key], <<>>)
    /\ UNCHANGED <<events, isLoading, isCreatingEvent, newEventLocation, net, cache,
                   route, launches, savePc, isSaving, logoutPc, previousPin,
                   prevFetch, firstTap>>

\* getEvents = getFromNetworkFirst('events', api.get('/events').then(...))
getEventsStore == getFromNetworkFirstStore(getEventsKey)

getEventsFallback == getFromNetworkFirstFallback(getEventsKey)

---------------------------------------------------------------------------
(* loadEvents of EventsMap, resumed after each await.  Once the screen is  *)
(* unmounted its setState calls do nothing, so the resumptions are left    *)
(* out from then on; getEvents itself runs on.                             *)

\* try: data = await api.getEvents() resolved; filter, setEvents; finally
loadEventsTry(now) ==
    /\ Mounted
    /\ pc = "fetchSettled" /\ fetchResult.kind = "resolved"
    /\ events' = upcomingEvents(fetchResult.value, now)
    /\ isLoading' = FALSE
    /\ pc' = "done"
    /\ last' = Step([kind |-> "loaded", source |-> "api", now |-> now,
                     data |-> fetchResult.value],
                    fitEffect(TRUE, events', isCreatingEvent))
    /\ UNCHANGED <<isCreatingEvent, newEventLocation, net, fetchResult, cache,
                   route, launches, savePc, isSaving, logoutPc, previousPin,
                   prevFetch, cacheOps, firstTap>>

\* variant: the screen reads the cache itself however getEvents settled
loadEventsCatch_always ==
    /\ Mounted
    /\ pc = "fetchSettled"
    /\ pc' = "screenCacheRead"
    /\ last' = Step([kind |-> "catch"], <<>>)
    /\ UNCHANGED <<events, isLoading, isCreatingEvent, newEventLocation, net,
                   fetchResult, cache, route, launches, savePc, isSaving,
                   logoutPc, previousPin, prevFetch, cacheOps, firstTap>>

\* catch (error): await api.getEvents() rejected; call getFromCache('events')
loadEventsCatch ==
    /\ Mounted
    /\ pc = "fetchSettled" /\ fetchResult.kind = "rejected"
    /\ pc' = "screenCacheRead"
    /\ last' = Step([kind |-> "catch"], <<>>)
    /\ UNCHANGED <<events, isLoading, isCreatingEvent, newEventLocation, net,
                   fetchResult, cache, route, launches, savePc, isSaving,
                   logoutPc, previousPin, prevFetch, cacheOps, firstTap>>

\* variant: setIsLoading(false) is not reached when nothing is cached
loadEventsFromCache_keepsSpinner(now) ==
    /\ Mounted
    /\ pc = "screenCacheRead"
    /\ IF cache[loadEventsCacheKey] # NULL
       THEN /\ events' = cachedUpcomingEvents(cache[loadEventsCacheKey].value, now)
            /\ isLoading' = FALSE
            /\ last' = Step([kind |-> "loaded", source |-> "cache", now |-> now,
                                  data |-> cache[loadEventsCacheKey].value],
                            fitEffect(TRUE, events', isCreatingEvent))
       ELSE /\ events' = <<>>
            /\ isLoading' = isLoading
            /\ last' = Step([kind |-> "loaded", source |-> "none", now |-> now,
                                  data |-> <<>>],
                            fitEffect(TRUE, events', isCreatingEvent))
    /\ pc' = "done"
    /\ cacheOps' = Append(cacheOps, CacheOp("read", loadEventsCacheKey, "loadEvents"))
    /\ UNCHANGED <<isCreatingEvent, newEventLocation, net, fetchResult, cache,
                   route, launches, savePc, isSaving, logoutPc, previousPin,
                   prevFetch, firstTap>>

\* variant: the empty list shown when nothing is cached is also stored
loadEventsFromCache_storesEmpty(now) ==
    /\ Mounted
    /\ pc = "screenCacheRead"
    /\ IF cache[loadEventsCacheKey] # NULL
       THEN /\ events' = cachedUpcomingEvents(cache[loadEventsCacheKey].value, now)
            /\ cache' = cache
            /\ last' = Step([kind |-> "loaded", source |-> "cache", now |-> now,
                                  data |-> cache[loadEventsCacheKey].value],
                            fitEffect(TRUE, events', isCreatingEvent))
       ELSE /\ events' = <<>>
            /\ cache' = [cache EXCEPT ![loadEventsCacheKey] = [value |-> <<>>]]
            /\ last' = Step([kind |-> "loaded", source |-> "none", now |-> now,
                                  data |-> <<>>],
                            fitEffect(TRUE, events', isCreatingEvent))
    /\ isLoading' = FALSE
    /\ pc' = "done"
    /\ cacheOps' = Append(cacheOps, CacheOp("read", loadEventsCacheKey, "loadEvents"))
    /\ UNCHANGED <<isCreatingEvent, newEventLocation, net, fetchResult, route,
                   launches, savePc, isSaving, logoutPc, previousPin,
                   prevFetch, firstTap>>

\* inner try / catch (cacheError): getFromCache settled; setEvents; finally
loadEventsFromCache(now) ==
    /\ Mounted
    /\ pc = "screenCacheRead"
    /\ IF cache[loadEventsCacheKey] # NULL
       THEN /\ events' = cachedUpcomingEvents(cache[loadEventsCacheKey].value, now)
            /\ last' = Step([kind |-> "loaded", source |-> "cache", now |-> now,
                                  data |-> cache[loadEventsCacheKey].value],
                            fitEffect(TRUE, events', isCreatingEvent))
       ELSE /\ events' = <<>>
            /\ last' = Step([kind |-> "loaded", source |-> "none", now |-> now,
                                  data |-> <<>>],
                            fitEffect(TRUE, events', isCreatingEvent))
    /\ isLoading' = FALSE
    /\ pc' = "done"
    /\ cacheOps' = Append(cacheOps, CacheOp("read", loadEventsCacheKey, "loadEvents"))
    /\ UNCHANGED <<isCreatingEvent, newEventLocation, net, fetchResult, cache,
                   route, launches, savePc, isSaving, logoutPc, previousPin,
                   prevFetch, firstTap>>

---------------------------------------------------------------------------
(* The app is closed and started again: the component state is rebuilt    *)
(* from its initial values, a load in flight dies with the old process,   *)
(* the persistent cache is kept.                                           *)

Relaunch ==
    /\ launches < MaxLaunches
    /\ launches' = launches + 1
    /\ savePc' = SaveIdle
    /\ isSaving' = FALSE
    /\ logoutPc' = "idle"
    /\ previousPin' = NULL
    /\ prevFetch' = [net |-> net.kind, result |-> fetchResult]
    /\ cacheOps' = <<>>
    /\ events' = <<>>
    /\ isLoading' = TRUE
    /\ isCreatingEvent' = FALSE
    /\ newEventLocation' = NULL
    /\ pc' = "awaitNetwork"
    /\ net' = Pending
    /\ fetchResult' = Pending
    /\ route' = [name |-> "EventsMap", params |-> NULL]
    /\ firstTap' = NULL
    /\ last' = [input |-> [kind |-> "launch"], calls |-> <<>>, from |-> "Idle",
                pending |-> NULL]
    /\ UNCHANGED cache

---------------------------------------------------------------------------
(* The two filtering branches of loadEvents on their own: loadEvents is    *)
(* about to resume with a list of events, either as the value getEvents    *)
(* resolved with (try block) or as the value getFromCache will give it     *)
(* after getEvents rejected (catch block).                                 *)

\* every list of at most MaxEvents events
EventLists == UNION {[1..n -> {E1, E2, E3, E4}] : n \in 0..MaxEvents}

FilterInit ==
    \E data \in EventLists, branch \in {"try", "catch"} :
        /\ events = <<>>
        /\ isLoading = TRUE
        /\ isCreatingEvent = FALSE
        /\ newEventLocation = NULL
        /\ cache = [k \in Keys |-> IF k = "events" THEN [value |-> data] ELSE NULL]
        /\ IF branch = "try"
           THEN /\ pc = "fetchSettled"
                /\ net = Resolved(data)
                /\ fetchResult = Resolved(data)
                /\ cacheOps = <<[op |-> "write", key |-> "events",
                                 by |-> "getFromNetworkFirst", net |-> "resolved"]>>
           ELSE /\ pc = "screenCacheRead"
                /\ net = Rejected("NetworkFailure")
                /\ fetchResult = Rejected("NoDataAvailable")
                /\ cacheOps = <<[op |-> "read", key |-> "events",
                                 by |-> "getFromNetworkFirst", net |-> "rejected"]>>
        /\ route = [name |-> "EventsMap", params |-> NULL]
        /\ launches = 1
        /\ savePc = SaveIdle
        /\ isSaving = FALSE
        /\ logoutPc = "idle"
        /\ previousPin = NULL
        /\ prevFetch = [net |-> "none", result |-> Pending]
        /\ firstTap = NULL
        /\ last = [input |-> [kind |-> "launch"], calls |-> <<>>, from |-> "Idle",
                   pending |-> NULL]

FilterNext ==
    \/ \E now \in Times : loadEventsTry(now)
    \/ \E now \in Times : loadEventsFromCache(now)

FilterSpec == FilterInit /\ [][FilterNext]_vars

---------------------------------------------------------------------------

Next ==
    \/ handleNavigateToCreateEvent
    \/ handleCancelLocationSelection
    \/ \E c \in Coords : handleMapPress(c)
    \/ handleLocationConfirmed
    \/ goBack
    \/ \E form \in Forms : handleSaveEvent(form)
    \/ createEventResolves
    \/ createEventRejects
    \/ successAlertOk
    \/ handleLogout
    \/ handleLogoutResolved
    \/ handleLogoutRejected
    \/ \E d \in ServerData : NetworkResolves(d)
    \/ NetworkRejects
    \/ getEventsStore
    \/ getEventsFallback
    \/ \E now \in Times : loadEventsTry(now)
    \/ loadEventsCatch
    \/ \E now \in Times : loadEventsFromCache(now)
    \/ Relaunch

Spec == Init /\ [][Next]_vars

\* The steps that bear on a load: the load itself, the inputs of the map
\* screen that can arrive while it runs, leaving and re-entering the map,
\* logging out and restarting.  The save of the creation form is left out:
\* it reads and writes none of the load's variables.
LiveNext ==
    \/ handleNavigateToCreateEvent
    \/ handleCancelLocationSelection
    \/ \E c \in Coords : handleMapPress(c)
    \/ handleLocationConfirmed
    \/ goBack
    \/ handleLogout
    \/ handleLogoutResolved
    \/ handleLogoutRejected
    \/ \E d \in ServerData : NetworkResolves(d)
    \/ NetworkRejects
    \/ getEventsStore
    \/ getEventsFallback
    \/ \E now \in Times : loadEventsTry(now)
    \/ loadEventsCatch
    \/ \E now \in Times : loadEventsFromCache(now)
    \/ Relaunch

\* Those steps under the scheduling a load relies on: the request to the
\* network settles, and a continuation whose promise has settled is run by
\* the event loop.  Nothing obliges the user to act or the app to be
\* restarted.
LiveSpec ==
    /\ Init
    /\ [][LiveNext]_vars
    /\ WF_vars((\E d \in ServerData : NetworkResolves(d)) \/ NetworkRejects)
    /\ WF_vars(getEventsStore)
    /\ WF_vars(getEventsFallback)
    /\ WF_vars(\E now \in Times : loadEventsTry(now))
    /\ WF_vars(loadEventsCatch)
    /\ WF_vars(\E now \in Times : loadEventsFromCache(now))

---------------------------------------------------------------------------
(* Properties *)

NavigateCalls(step) == SelectSeq(step.calls, LAMBDA c : c.fn = "navigate")

FitCalls(step) == SelectSeq(step.calls, LAMBDA c : c.fn = "fitToCoordinates")

\* api.getEvents() has settled (loadEvents may or may not have resumed yet)
FetchSettled == pc \in {"fetchSettled", "screenCacheRead", "done"}

\* C1: in every reachable state a pending location exists if and only if
\* the flow is in LocationChosen; isCreatingEvent = FALSE together with a
\* pending location never occurs.
C1_PendingIffLocationChosen ==
    /\ (newEventLocation # NULL) <=> (MachineState = "LocationChosen")
    /\ ~(~isCreatingEvent /\ newEventLocation # NULL)

\* C1 witness: a load completed while a location was pending
C1_Witness ==
    /\ MachineState = "LocationChosen"
    /\ last.input.kind = "loaded"
    /\ newEventLocation = Coordinate(10, 20)

\* C2: from the first tap after start-creation until the next cancel or
\* confirm, the flow stays in LocationChosen and the pending location is the
\* point of that first tap, whatever taps follow.
C2_FirstTapCounts ==
    firstTap # NULL => /\ MachineState = "LocationChosen"
                       /\ newEventLocation = firstTap

\* C2 witness: [start, tap(10,20), tap(30,40)] holds (10,20)
C2_Witness ==
    /\ firstTap = Coordinate(10, 20)
    /\ last.input = [kind |-> "tap", coordinate |-> Coordinate(30, 40)]
    /\ last.from = "LocationChosen"
    /\ newEventLocation = Coordinate(10, 20)

\* C3: a confirm in LocationChosen makes exactly one navigate call, to
\* CreateEvent with the latitude and longitude of the pending location, the
\* form reads exactly those two values, and the flow is back in Idle.
C3_ConfirmHandsOffPending ==
    (last.input.kind = "confirm" /\ last.from = "LocationChosen") =>
        /\ NavigateCalls(last) =
              <<Call("navigate",
                     [name |-> "CreateEvent",
                      params |-> [latitude |-> last.pending.latitude,
                                  longitude |-> last.pending.longitude]])>>
        /\ route.name = "CreateEvent"
        /\ CreateEventLocation = last.pending
        /\ MachineState = "Idle"

\* C3 witness: [start, tap(5,5), confirm] has handed off {5, 5}
C3_Witness ==
    /\ last.input.kind = "confirm"
    /\ last.pending = Coordinate(5, 5)
    /\ route = [name |-> "CreateEvent", params |-> Coordinate(5, 5)]
    /\ MachineState = "Idle"

\* C4: a cancel in SelectingLocation or LocationChosen ends in Idle with no
\* pending location and makes no navigate call (the map stays the route).
C4_CancelEndsIdle ==
    (last.input.kind = "cancel"
        /\ last.from \in {"SelectingLocation", "LocationChosen"}) =>
        /\ MachineState = "Idle"
        /\ newEventLocation = NULL
        /\ NavigateCalls(last) = <<>>
        /\ route.name = "EventsMap"

\* C4 witness: a cancel that discarded a pending location
C4_Witness ==
    /\ last.input.kind = "cancel"
    /\ last.from = "LocationChosen"
    /\ last.pending = Coordinate(30, 40)
    /\ MachineState = "Idle"

\* C5: no step calls fitToCoordinates while the flow is outside Idle, also
\* not the step in which a load sets the events list.
C5_NoFitOutsideIdle ==
    FitCalls(last) # <<>> => MachineState = "Idle"

\* C5 witness: a load delivered events mid-selection and the camera stayed
C5_Witness ==
    /\ last.input.kind = "loaded"
    /\ events # <<>>
    /\ MachineState \in {"SelectingLocation", "LocationChosen"}
    /\ FitCalls(last) = <<>>

\* C6: when the network rejected and the slot 'events' holds a value,
\* getEvents resolves with that value, and the list the screen (while it is
\* mounted) ends up showing is that value filtered, never the empty list of
\* the error path.
C6_RejectedNetworkServesCache ==
    (FetchSettled /\ net.kind = "rejected" /\ cache["events"] # NULL) =>
        /\ fetchResult = Resolved(cache["events"].value)
        /\ pc # "screenCacheRead"
        /\ (pc = "done" /\ Mounted) =>
              \E now \in Times : events = upcomingEvents(cache["events"].value, now)

\* C6 witness: a load that ended on cached events after a network failure
C6_Witness ==
    /\ pc = "done"
    /\ net.kind = "rejected"
    /\ cache["events"] = [value |-> <<E2, E3>>]
    /\ events = <<E2, E3>>

\* C7: when the network rejected and the slot 'events' holds nothing,
\* getEvents rejects with NoDataAvailable; no other error is ever the
\* outcome of getEvents.
C7_NoCacheRejectsNoData ==
    /\ (FetchSettled /\ net.kind = "rejected" /\ cache["events"] = NULL) =>
            fetchResult = Rejected("NoDataAvailable")
    /\ fetchResult.kind = "rejected" => fetchResult.error = "NoDataAvailable"

\* C7 witness: getEvents rejected although another slot holds data
C7_Witness ==
    /\ pc = "fetchSettled"
    /\ net = Rejected("NetworkFailure")
    /\ cache["events"] = NULL
    /\ cache["other"] # NULL
    /\ fetchResult = Rejected("NoDataAvailable")

\* C8: a load that ended without data shows the empty list, has cleared the
\* loading flag, and the map still takes taps and the button of the current
\* phase.
C8_NoDataShowsEmptyList ==
    (pc = "done" /\ fetchResult.kind = "rejected" /\ Mounted) =>
        /\ events = <<>>
        /\ isLoading = FALSE
        /\ OnMap => /\ ENABLED (\E c \in Coords : handleMapPress(c))
                    /\ MachineState = "Idle" => ENABLED handleNavigateToCreateEvent
                    /\ MachineState # "Idle" => ENABLED handleCancelLocationSelection
                    /\ MachineState = "LocationChosen" => ENABLED handleLocationConfirmed

\* C8 witness: after a load without data a tap was taken as the location
C8_Witness ==
    /\ pc = "done"
    /\ fetchResult = Rejected("NoDataAvailable")
    /\ events = <<>>
    /\ last.input.kind = "tap"
    /\ last.from = "SelectingLocation"
    /\ MachineState = "LocationChosen"

\* C9: once getEvents has settled after the network resolved, the slot
\* 'events' holds exactly the fetched value and getEvents has resolved with
\* that value.
C9_SuccessOverwritesSlot ==
    (FetchSettled /\ net.kind = "resolved") =>
        /\ cache["events"] = [value |-> net.value]
        /\ fetchResult = Resolved(net.value)

\* C9 witness: the write replaced a different, non-empty earlier value
C9_Witness ==
    /\ last.input.kind = "cacheWrite"
    /\ last.input.previous = [value |-> <<E1, E2>>]
    /\ net = Resolved(<<E2, E3>>)
    /\ cache["events"] = [value |-> <<E2, E3>>]

\* C10: a step changes the cache only if it is the store of a fetch whose
\* network operation resolved, and then only the slot 'events'; rejected
\* fetches and cache reads leave every slot as it was.
C10_CacheChangesOnlyOnSuccess ==
    [][cache' # cache =>
          /\ pc = "cacheWrite"
          /\ net.kind = "resolved"
          /\ last'.input.kind = "cacheWrite"
          /\ \A k \in Keys \ {"events"} : cache'[k] = cache[k]]_vars

\* C10 witness: a load went through both cache reads and found nothing,
\* with the slots as they were
C10_Witness ==
    /\ last.input.kind = "loaded"
    /\ last.input.source = "none"
    /\ net.kind = "rejected"
    /\ cache["events"] = NULL
    /\ cache["other"] = [value |-> <<E1, E2>>]

\* C11: every cache read of a load, by getEvents or by the screen itself, is
\* made when the network operation is known to have rejected (none before
\* it settles, none after it resolved), and no slot is both read and written
\* in one load.
C11_ReadOnlyAfterRejection ==
    /\ \A i \in 1..Len(cacheOps) :
          cacheOps[i].op = "read" => cacheOps[i].net = "rejected"
    /\ \A i, j \in 1..Len(cacheOps) :
          ~(/\ cacheOps[i].op = "read"
            /\ cacheOps[j].op = "write"
            /\ cacheOps[i].key = cacheOps[j].key)
    /\ (net.kind = "pending") => cacheOps = <<>>

\* C11 witness: both reads of a load, each after the network had rejected
C11_Witness ==
    /\ Len(cacheOps) = 2
    /\ cacheOps[1] = [op |-> "read", key |-> "events", by |-> "getFromNetworkFirst",
                       net |-> "rejected"]
    /\ cacheOps[2] = [op |-> "read", key |-> "events", by |-> "loadEvents",
                       net |-> "rejected"]

\* C12: when the network rejects in two consecutive getEvents calls (the
\* screen makes one per start of the app), the second settles exactly as the
\* first did: the same cached value, or NoDataAvailable both times.
C12_FailingFetchIdempotent ==
    (/\ FetchSettled /\ net.kind = "rejected"
     /\ prevFetch.net = "rejected" /\ prevFetch.result.kind # "pending") =>
        fetchResult = prevFetch.result

\* C12 witness: two failing fetches in a row served the same cached value
C12_Witness ==
    /\ prevFetch = [net |-> "rejected", result |-> Resolved(<<E1, E2>>)]
    /\ net.kind = "rejected"
    /\ fetchResult = Resolved(<<E1, E2>>)

\* the positions of data whose event lies strictly after now
KeptPositions(data, now) ==
    {i \in 1..Len(data) : /\ newDate(data[i].dateTime).valid
                          /\ newDate(data[i].dateTime).time > now}

\* out holds exactly the records of data at the kept positions, each as it
\* was given, in their order
ExactlyTheUpcoming(out, data, now) ==
    \E f \in [1..Len(out) -> 1..Len(data)] :
        /\ \A a, b \in 1..Len(out) : a < b => f[a] < f[b]
        /\ {f[a] : a \in 1..Len(out)} = KeptPositions(data, now)
        /\ \A a \in 1..Len(out) : out[a] = data[f[a]]

\* C13: the list a load shows holds exactly the events of the data it got
\* whose dateTime is strictly after now (an event exactly at now, and one
\* without a parseable dateTime, is dropped); the kept records are the given
\* ones, and the data given to the filter is left as it was.
C13_FilterKeepsStrictlyAfterNow ==
    (last.input.kind = "loaded" /\ last.input.source = "api") =>
        /\ ExactlyTheUpcoming(events, last.input.data, last.input.now)
        /\ fetchResult.value = last.input.data

\* C13 witness: of events at t-1, t, t+1 (and an unparseable one) with
\* now = t, only the one at t+1 is shown
C13_Witness ==
    /\ last.input.kind = "loaded"
    /\ last.input.data = <<E1, E2, E3, E4>>
    /\ last.input.now = 2
    /\ events = <<E3>>

\* C14: whichever branch of loadEvents produced the list shown, it is the
\* same filter of the data that branch obtained: the events strictly after
\* one instant, the single now read for that load, and what the other
\* branch would have shown for the same data and now.
C14_SameFilterFromEitherSource ==
    (pc = "done" /\ last.input.kind = "loaded") =>
        /\ ExactlyTheUpcoming(events, last.input.data, last.input.now)
        /\ events = upcomingEvents(last.input.data, last.input.now)
        /\ events = cachedUpcomingEvents(last.input.data, last.input.now)

\* C14 witness: the catch block showing cached events, filtered at now = 1
C14_Witness ==
    /\ pc = "done"
    /\ last.input.source = "cache"
    /\ last.input.data = <<E1, E2, E3>>
    /\ last.input.now = 1
    /\ events = <<E2, E3>>

\* the step observed was an input that the phase it found does not take
InvalidInput(step) ==
    \/ step.input.kind = "tap" /\ step.from = "Idle"
    \/ step.input.kind = "confirm" /\ step.pending = NULL
    \/ step.input.kind = "cancel" /\ step.from = "Idle"
    \/ step.input.kind = "start" /\ step.from # "Idle"

CreateEventCalls(step) == SelectSeq(step.calls, LAMBDA c : c.fn = "createEvent")

\* the Event invariant and the form's contract, on one record passed to
\* createEvent from the form showing for the location `handedOff`
ValidNewEvent(event, handedOff) ==
    /\ event.volunteersNeeded \in Nat
    /\ newDate(event.dateTime).valid
    /\ event.position = handedOff
    /\ event.volunteersIds = <<>>

\* C17: every Event record the creation form passes to createEvent has a
\* volunteersNeeded that is a non-negative integer and a dateTime that
\* parses to an instant, its position is the latitude/longitude handed off
\* to the form and its volunteersIds is empty.
C17_CreatedEventSatisfiesInvariant ==
    \A i \in 1..Len(CreateEventCalls(last)) :
        ValidNewEvent(CreateEventCalls(last)[i].arg, CreateEventLocation)

\* C17, the part the form does ensure: the record's dateTime parses, its
\* position is the handed-off one and its volunteersIds is empty
C17_CreatedEventOtherFields ==
    \A i \in 1..Len(CreateEventCalls(last)) :
        LET event == CreateEventCalls(last)[i].arg IN
        /\ newDate(event.dateTime).valid
        /\ event.position = CreateEventLocation
        /\ event.volunteersIds = <<>>

\* C17 witness: a form that passed the checks was sent with a negative
\* number of volunteers
C17_Witness ==
    /\ last.input.kind = "save"
    /\ Len(CreateEventCalls(last)) = 1
    /\ CreateEventCalls(last)[1].arg.volunteersNeeded = -5
    /\ isSaving

\* the steps of the creation flow and the steps of a load
MachineInputs == {"start", "tap", "cancel", "confirm"}
LoadSteps ==
    {"networkResolved", "networkRejected", "cacheWrite", "cacheRead", "catch",
     "loaded"}

\* what the flow's two flags become on an input, from the flags alone
MachineTransition(input, creating, pending) ==
    CASE input.kind = "start" -> <<TRUE, NULL>>
      [] input.kind = "cancel" -> <<FALSE, NULL>>
      [] input.kind = "tap" ->
            IF creating /\ pending = NULL
            THEN <<creating, input.coordinate>>
            ELSE <<creating, pending>>
      [] input.kind = "confirm" ->
            IF pending # NULL THEN <<FALSE, NULL>> ELSE <<creating, pending>>

\* which inputs the map screen offers, from the flags alone
MachineOffers(kind, creating, pending) ==
    CASE kind = "start" -> ~creating
      [] kind = "cancel" -> creating
      [] kind = "tap" -> TRUE
      [] kind = "confirm" -> creating /\ pending # NULL

\* C18: start-creation, tap, cancel and confirm are offered and move the
\* flow as the flow's own two flags determine, whatever the state of the
\* load (pending, succeeded, failed), and leave events, isLoading and the
\* load's own state unchanged; every step of a load, its completion from the
\* network, from the cache or with no data included, leaves isCreatingEvent
\* and newEventLocation unchanged.
C18_MachineAndLoadIndependent ==
    /\ [](OnMap =>
            /\ ENABLED handleNavigateToCreateEvent
                  <=> MachineOffers("start", isCreatingEvent, newEventLocation)
            /\ ENABLED handleCancelLocationSelection
                  <=> MachineOffers("cancel", isCreatingEvent, newEventLocation)
            /\ ENABLED handleLocationConfirmed
                  <=> MachineOffers("confirm", isCreatingEvent, newEventLocation)
            /\ \A c \in Coords :
                  ENABLED handleMapPress(c)
                     <=> MachineOffers("tap", isCreatingEvent, newEventLocation))
    /\ [][/\ last'.input.kind \in MachineInputs =>
               /\ <<isCreatingEvent', newEventLocation'>> =
                     MachineTransition(last'.input, isCreatingEvent,
                                       newEventLocation)
               /\ UNCHANGED <<events, isLoading, pc, net, fetchResult, cache>>
          /\ last'.input.kind \in LoadSteps =>
               UNCHANGED <<isCreatingEvent, newEventLocation>>
         ]_vars

\* C18 witness: the load completed, with the cached value after the network
\* failed, while a location chosen during the load was pending, and the
\* location is still pending
C18_Witness ==
    /\ last.input.kind = "loaded"
    /\ net.kind = "rejected"
    /\ last.from = "LocationChosen"
    /\ MachineState = "LocationChosen"
    /\ newEventLocation = last.pending
    /\ events # <<>>

\* the steps of a save: the press, the two ways createEvent settles, and the
\* dismissal of the success alert
SaveSteps == {"save", "created", "createFailed", "ok"}

\* C19: no step of a save, the call of createEvent, its success, its failure
\* or the return to the map after a success, changes the cache or the events
\* list of the map screen or touches the cache at all; createEvent is called
\* only by a press of Save, once, and its failure ends the save without
\* another call.
C19_CreateEventOutsideCachePath ==
    [][/\ last'.input.kind \in SaveSteps =>
            UNCHANGED <<events, cache, cacheOps, pc, net, fetchResult>>
       /\ last'.input.kind \in {"created", "createFailed"} =>
            /\ savePc.at = "awaitCreate"
            /\ savePc'.at # "awaitCreate"
            /\ CreateEventCalls(last') = <<>>
       /\ CreateEventCalls(last') # <<>> =>
            /\ last'.input.kind = "save"
            /\ Len(CreateEventCalls(last')) = 1
      ]_vars

\* C19 witness: back on the map after a successful createEvent, with events
\* shown and the slot filled
C19_Witness ==
    /\ last.input.kind = "ok"
    /\ OnMap
    /\ events # <<>>
    /\ cache["events"] # NULL
    /\ pc = "done"

\* C20: right after start-creation was taken in Idle the flow is in
\* SelectingLocation and no location is pending, also when an earlier
\* attempt, cancelled or confirmed, had chosen one.
C20_StartClearsPending ==
    (last.input.kind = "start" /\ last.from = "Idle") =>
        /\ MachineState = "SelectingLocation"
        /\ isCreatingEvent
        /\ newEventLocation = NULL

\* C20 witness: creation was started again after an attempt that had chosen
\* a location
C20_Witness ==
    /\ last.input.kind = "start"
    /\ last.from = "Idle"
    /\ previousPin = Coordinate(30, 40)
    /\ MachineState = "SelectingLocation"

\* loadEvents has finished in one of its outcomes: the indicator is cleared
\* and events is the filtered value getEvents resolved with (from the
\* network, or from the cache after the network failed), or the empty list
\* when getEvents rejected
LoadEnded ==
    /\ pc = "done"
    /\ ~isLoading
    /\ IF fetchResult.kind = "resolved"
       THEN \E now \in Times : events = upcomingEvents(fetchResult.value, now)
       ELSE fetchResult.kind = "rejected" /\ events = <<>>

\* C21: whenever the map screen is mounted with a load under way
\* (isLoading is true), then, the network request and the continuations
\* being scheduled, the load ends with isLoading false and events set to a
\* filtered list or to the empty list; unless a logout has unmounted the
\* screen first, whose state is then gone.
C21_LoadTerminates == (Mounted /\ isLoading) ~> (LoadEnded \/ ~Mounted)

\* C21 witness: a load ended with the indicator cleared after the network
\* failed and the cache held nothing
C21_Witness ==
    /\ LoadEnded
    /\ Mounted
    /\ net.kind = "rejected"
    /\ fetchResult.kind = "rejected"
    /\ last.input.kind = "loaded"

\* the one call the fit effect makes when it fires on the listed events
FitOnListed == <<Call("fitToCoordinates", [coordinates |-> coordinates(events)])>>

\* C22: a step calls fitToCoordinates only when the events list is not
\* empty, and then once, on the positions of all listed events; and every
\* cancel or confirm that took the flow from SelectingLocation or
\* LocationChosen back to Idle while events were listed made that call, the
\* confirm that handed off to the creation form included.
C22_FitOnReturnToIdle ==
    /\ FitCalls(last) # <<>> =>
          /\ events # <<>>
          /\ FitCalls(last) = FitOnListed
          /\ \A i \in 1..Len(events) :
                FitCalls(last)[1].arg.coordinates[i] = events[i].position
    /\ ( /\ last.input.kind \in {"cancel", "confirm"}
         /\ last.from \in {"SelectingLocation", "LocationChosen"}
         /\ MachineState = "Idle"
         /\ events # <<>> ) =>
          FitCalls(last) = FitOnListed

\* C22 witness: a confirm handed off to the creation form and the camera was
\* fitted to the listed events in the same step
C22_Witness ==
    /\ last.input.kind = "confirm"
    /\ last.from = "LocationChosen"
    /\ route.name = "CreateEvent"
    /\ NavigateCalls(last) # <<>>
    /\ events = <<E2, E3>>
    /\ FitCalls(last) = FitOnListed

====
